---- MODULE Spec2Model ----
(***************************************************************************)
(* LitHub (src/lithub.py): the document-to-HTML extractor                  *)
(* extract_docx_content and the comment store behind the review handler.   *)
(*                                                                         *)
(* Python strings are sequences of one-character strings, so that strip,   *)
(* lower, startswith, endswith and "in" are computed and not assumed.      *)
(* The body HTML is kept as the list `content` of the pieces the code      *)
(* appends (the code joins them with "" only on return); a piece is a      *)
(* record [el, tag, text].                                                 *)
(***************************************************************************)
EXTENDS Integers, Sequences, FiniteSets, TLC

VARIABLES
    doc,          \* the parsed document: [blocks, rels]
    pc,           \* position inside extract_docx_content
    title,        \* local `title`
    description,  \* local `description`
    block_items,  \* local `block_items`
    blk,          \* index of the next element of block_items (the for loop)
    list_open,    \* local `list_open`
    content,      \* local `content`
    rel,          \* index of the next relationship (the image loop)
    result,       \* the returned tuple, once returned
    comments,     \* the rows of table `comments`, in insertion (rowid) order
    response,     \* what the last request to review() answered
    request       \* the last request to review(): name, method, form field

extractVars == <<doc, pc, title, description, block_items, blk, list_open, content, rel, result>>
storeVars == <<comments, response, request>>
vars == <<doc, pc, title, description, block_items, blk, list_open, content, rel, result, comments, response, request>>

----------------------------------------------------------------------------
(* Bounds of the explored inputs *)

MaxBodyBlocks == 3
MaxRels == 3
MaxRuns == 2
MaxComments == 3

----------------------------------------------------------------------------
(* Python values and string methods *)

\* None, told apart from every string (a string's elements are single characters)
None == <<"None">>

Whitespace == {" ", "\t", "\n"}

UpperToLower ==
    [A |-> "a", B |-> "b", C |-> "c", D |-> "d", E |-> "e", F |-> "f", G |-> "g",
     H |-> "h", I |-> "i", J |-> "j", K |-> "k", L |-> "l", M |-> "m", N |-> "n",
     O |-> "o", P |-> "p", Q |-> "q", R |-> "r", S |-> "s", T |-> "t", U |-> "u",
     V |-> "v", W |-> "w", X |-> "x", Y |-> "y", Z |-> "z"]

\* str.lower()
lower(s) == [k \in 1..Len(s) |-> IF s[k] \in DOMAIN UpperToLower THEN UpperToLower[s[k]] ELSE s[k]]

RECURSIVE lstrip(_)
lstrip(s) == IF s # <<>> /\ Head(s) \in Whitespace THEN lstrip(Tail(s)) ELSE s

RECURSIVE rstrip(_)
rstrip(s) == IF s # <<>> /\ s[Len(s)] \in Whitespace THEN rstrip(SubSeq(s, 1, Len(s) - 1)) ELSE s

\* str.strip()
strip(s) == rstrip(lstrip(s))

\* str.startswith(prefix)
startswith(s, prefix) == Len(prefix) <= Len(s) /\ SubSeq(s, 1, Len(prefix)) = prefix

\* str.endswith(suffix)
endswith(s, suffix) == Len(suffix) <= Len(s) /\ SubSeq(s, Len(s) - Len(suffix) + 1, Len(s)) = suffix

\* sub in s
contains(s, sub) == \E k \in 0..(Len(s) - Len(sub)) : SubSeq(s, k + 1, k + Len(sub)) = sub

RECURSIVE join(_)
\* "".join(parts) for a list of strings
join(parts) == IF parts = <<>> THEN <<>> ELSE Head(parts) \o join(Tail(parts))

\* The literals of the source
ul == <<"u", "l">>
ol == <<"o", "l">>
s_heading == <<"h", "e", "a", "d", "i", "n", "g">>
s_chapter == <<"c", "h", "a", "p", "t", "e", "r">>
s_list == <<"l", "i", "s", "t">>
s_bullet == <<"b", "u", "l", "l", "e", "t">>
s_number == <<"n", "u", "m", "b", "e", "r">>
s_image == <<"i", "m", "a", "g", "e">>
s_docx == <<".", "d", "o", "c", "x">>
UntitledReview == <<"U", "n", "t", "i", "t", "l", "e", "d", " ", "R", "e", "v", "i", "e", "w">>
NoDescription == <<"N", "o", " ", "d", "e", "s", "c", "r", "i", "p", "t", "i", "o", "n", " ",
                   "a", "v", "a", "i", "l", "a", "b", "l", "e", ".">>

----------------------------------------------------------------------------
(* Documents: what python-docx hands to the extractor *)

Run(t, b, i) == [text |-> t, bold |-> b, italic |-> i]
Para(st, rs) == [type |-> "Paragraph", style |-> st, runs |-> rs]
Tbl(rs) == [type |-> "Table", rows |-> rs]

Normal == <<"N", "o", "r", "m", "a", "l">>
Heading1 == <<"H", "e", "a", "d", "i", "n", "g", " ", "1">>
ListBullet == <<"L", "i", "s", "t", " ", "B", "u", "l", "l", "e", "t">>
ListNumber == <<"L", "i", "s", "t", " ", "N", "u", "m", "b", "e", "r">>

PTitle == Para(Normal, <<Run(<<" ", "T">>, TRUE, FALSE)>>)
PEmpty == Para(Normal, <<Run(<<" ">>, FALSE, FALSE)>>)
PHeading == Para(Heading1, <<Run(<<"I", "n", "t", "r", "o">>, FALSE, FALSE)>>)
PChapterItem == Para(ListBullet, <<Run(<<"C", "h", "a", "p", "t", "e", "r", " ", "2">>, FALSE, FALSE)>>)
PBullet == Para(ListBullet, <<Run(<<"a">>, FALSE, FALSE)>>)
PNumber == Para(ListNumber, <<Run(<<"b", " ">>, FALSE, FALSE)>>)
PPlain == Para(Normal, <<Run(<<"x">>, TRUE, TRUE), Run(<<>>, TRUE, FALSE), Run(<<" ", "y", " ">>, FALSE, FALSE)>>)
TTable == Tbl(<<<<<<" ", "c">>, <<"d">>>>>>)

HeadPalette == {PTitle, PEmpty, TTable}
BodyPalette == {PEmpty, PHeading, PChapterItem, PBullet, PNumber, PPlain, TTable}

SeqsUpTo(S, n) == UNION {[1..k -> S] : k \in 0..n}

\* The block lists explored: any two leading blocks, then up to MaxBodyBlocks more
BlockLists ==
    SeqsUpTo(HeadPalette, 1)
    \cup {h \o b : h \in [1..2 -> HeadPalette], b \in SeqsUpTo(BodyPalette, MaxBodyBlocks)}

\* The runs explored in a plain paragraph: any text, any emphasis
RunPalette == {Run(t, b, i) : t \in {<<>>, <<"x">>, <<" ">>}, b \in BOOLEAN, i \in BOOLEAN}

\* The block lists explored beside the full range of runs
RunBlockLists == {<<PTitle, PTitle, Para(Normal, rs)>> : rs \in SeqsUpTo(RunPalette, MaxRuns)}

\* Paragraph.text: the text of the runs, concatenated
ParaText(p) == join([k \in 1..Len(p.runs) |-> p.runs[k].text])

\* Document.paragraphs: the body's paragraphs, in order
Paragraphs(d) == SelectSeq(d.blocks, LAMBDA b : b.type = "Paragraph")

\* iter_block_items(doc): the body's paragraphs and tables, in order
iter_block_items(d) == d.blocks

\* An embedded part: what Image.open makes of its blob
Blob(ok, fmt, px) == [decodable |-> ok, format |-> fmt, pixels |-> px]
Rel(rt, b) == [reltype |-> rt, target_part |-> [blob |-> b]]

rt_image == <<"r", "/", "i", "m", "a", "g", "e">>
rt_styles == <<"r", "/", "s", "t", "y", "l", "e", "s">>

RStyles == Rel(rt_styles, Blob(FALSE, None, <<"s">>))
RPng == Rel(rt_image, Blob(TRUE, <<"P", "N", "G">>, <<"1">>))
RJpeg == Rel(rt_image, Blob(TRUE, <<"J", "P", "E", "G">>, <<"2">>))
RBad == Rel(rt_image, Blob(FALSE, None, <<"3">>))

RelPalette == {RStyles, RPng, RJpeg, RBad}

\* The relationship tables explored beside the full range of block lists
FewRelTables == {<<RStyles, RPng>>, <<RJpeg, RBad>>}

\* The block lists explored beside the full range of relationship tables
FewBlockLists == {<<>>, <<PTitle, PPlain, PBullet>>, <<TTable, PTitle, PNumber, PHeading>>}

----------------------------------------------------------------------------
(* extract_docx_content: the pieces appended to `content` *)

OpenTag(tag) == [el |-> "open", tag |-> tag, text |-> <<>>]
CloseTag(tag) == [el |-> "close", tag |-> tag, text |-> <<>>]
Li(text) == [el |-> "li", tag |-> <<>>, text |-> text]
H2(text) == [el |-> "h2", tag |-> <<>>, text |-> text]
P(html) == [el |-> "p", tag |-> <<>>, text |-> html]
TableEl(rows) == [el |-> "table", tag |-> <<>>, text |-> rows]
Img(fmt, payload) == [el |-> "img", tag |-> <<>>, text |-> <<fmt, payload>>]

\* title: first paragraph's stripped text, or the default when there is no paragraph
TitleOf(d) ==
    IF Paragraphs(d) # <<>> THEN strip(ParaText(Paragraphs(d)[1])) ELSE UntitledReview

\* description: second paragraph's stripped text, or the default when there is none
DescriptionOf(d) ==
    IF Len(Paragraphs(d)) > 1 THEN strip(ParaText(Paragraphs(d)[2])) ELSE NoDescription

\* list(iter_block_items(doc))[2:]
BlockItemsOf(d) ==
    LET all == iter_block_items(d)
    IN  IF Len(all) > 2 THEN SubSeq(all, 3, Len(all)) ELSE <<>>

\* if list_open: content.append(f"</{list_open}>"); list_open = None
CloseOpenList(st) ==
    IF st.list_open # None
    THEN [list_open |-> None, content |-> Append(st.content, CloseTag(st.list_open))]
    ELSE st

\* Mutant: only the style makes a heading
IsHeading_StyleOnly(style, text) == contains(style, s_heading)

\* "heading" in style or text.lower().startswith("chapter")
IsHeading(style, text) == contains(style, s_heading) \/ startswith(lower(text), s_chapter)

\* style.startswith("list") or re.search(r"bullet|number", style)
IsListStyle(style) ==
    startswith(style, s_list) \/ contains(style, s_bullet) \/ contains(style, s_number)

\* tag = "ul" if "bullet" in style else "ol"
ListTag(style) == IF contains(style, s_bullet) THEN ul ELSE ol

\* Mutant: a list is opened only when none is open, whatever its tag
ListItem_NoSwitch(st, tag, text) ==
    LET opened ==
            IF st.list_open = None
            THEN [list_open |-> tag, content |-> Append(st.content, OpenTag(tag))]
            ELSE st
    IN  [opened EXCEPT !.content = Append(opened.content, Li(text))]

\* the list branch: switch or open the list, then append the item
ListItem(st, tag, text) ==
    LET opened ==
            IF st.list_open # None /\ st.list_open # tag
            THEN [list_open |-> tag,
                  content |-> st.content \o <<CloseTag(st.list_open), OpenTag(tag)>>]
            ELSE IF st.list_open = None
            THEN [list_open |-> tag, content |-> Append(st.content, OpenTag(tag))]
            ELSE st
    IN  [opened EXCEPT !.content = Append(opened.content, Li(text))]

b_open == <<"<", "b", ">">>
b_close == <<"<", "/", "b", ">">>
i_open == <<"<", "i", ">">>
i_close == <<"<", "/", "i", ">">>

\* Mutant: italic wrapped first, bold wrapped around it
RunHtml_BoldOutside(run) ==
    LET run_text == run.text
        slanted == IF run.italic THEN i_open \o run_text \o i_close ELSE run_text
    IN  IF run_text = <<>> THEN <<>>
        ELSE IF run.bold THEN b_open \o slanted \o b_close ELSE slanted

\* one run of a plain paragraph: bold wrapped first, italic wrapped around it
RunHtml(run) ==
    LET run_text == run.text
        bolded == IF run.bold THEN b_open \o run_text \o b_close ELSE run_text
    IN  IF run_text = <<>> THEN <<>>
        ELSE IF run.italic THEN i_open \o bolded \o i_close ELSE bolded

\* para_html: the runs' html, concatenated
ParaHtml(block) == join([k \in 1..Len(block.runs) |-> RunHtml(block.runs[k])])

\* Mutant: a plain paragraph leaves the open list open
PlainParagraph_KeepsList(st, block) ==
    IF strip(ParaHtml(block)) # <<>>
    THEN [st EXCEPT !.content = Append(st.content, P(strip(ParaHtml(block))))]
    ELSE st

\* the plain-paragraph branch
PlainParagraph(st, block) ==
    LET closed == CloseOpenList(st)
        para_html == ParaHtml(block)
    IN  IF strip(para_html) # <<>>
        THEN [closed EXCEPT !.content = Append(closed.content, P(strip(para_html)))]
        ELSE closed

\* the table branch: rows in order, each cell's stripped text
TableHtml(block) ==
    TableEl([r \in 1..Len(block.rows) |->
                [c \in 1..Len(block.rows[r]) |-> strip(block.rows[r][c])]])

\* One iteration of `for block in block_items`, on st = [list_open, content]
ProcessBlock(st, block) ==
    IF block.type = "Paragraph"
    THEN LET style == lower(block.style)
             text == strip(ParaText(block))
         IN  IF text = <<>> THEN st
             ELSE IF IsHeading(style, text)
             THEN LET closed == CloseOpenList(st)
                  IN  [closed EXCEPT !.content = Append(closed.content, H2(text))]
             ELSE IF IsListStyle(style)
             THEN ListItem(st, ListTag(style), text)
             ELSE PlainParagraph(st, block)
    ELSE LET closed == CloseOpenList(st)
         IN  [closed EXCEPT !.content = Append(closed.content, TableHtml(block))]

\* Mutant: the list left open by the last block is never closed
CloseUnclosed_Forgotten(lo, c) == c

\* after the loop: if list_open: content.append(f"</{list_open}>")
CloseUnclosed(lo, c) == IF lo # None THEN Append(c, CloseTag(lo)) ELSE c

\* "image" in rel.reltype
IsImageRel(r) == contains(r.reltype, s_image)

\* Image.open(BytesIO(img_data)) raises when the blob is no image it can identify
ImageOpenRaises(r) == ~r.target_part.blob.decodable

s_jpeg == <<"j", "p", "e", "g">>

\* Mutant: the detected format is not lowered
ImgFormat_NoLower(b) == IF b.format # None THEN b.format ELSE s_jpeg

\* img.format.lower() if img.format else "jpeg"
ImgFormat(b) == IF b.format # None THEN lower(b.format) ELSE s_jpeg

\* the <img> piece of one image relationship; the base64 text of the re-saved
\* image is kept as the picture it encodes
ImgTag(r) == Img(ImgFormat(r.target_part.blob), r.target_part.blob.pixels)

\* the fourth component of the returned tuple
ReturnedImages == <<>>

----------------------------------------------------------------------------
(* extract_docx_content, statement by statement *)

NoResult == [returned |-> FALSE]

\* no request answered yet
NoResponse == [status |-> 0]

\* no request made yet
NoRequest == [method |-> "none"]

\* doc = Document(filepath) ... block_items = ...; list_open = None
Begin ==
    /\ pc = "start"
    /\ title' = TitleOf(doc)
    /\ description' = DescriptionOf(doc)
    /\ block_items' = BlockItemsOf(doc)
    /\ list_open' = None
    /\ content' = <<>>
    /\ blk' = 1
    /\ pc' = "body"
    /\ UNCHANGED <<doc, rel, result, comments, response, request>>

\* one iteration of `for block in block_items`
BodyStep ==
    /\ pc = "body"
    /\ blk <= Len(block_items)
    /\ LET st == ProcessBlock([list_open |-> list_open, content |-> content], block_items[blk])
       IN  /\ list_open' = st.list_open
           /\ content' = st.content
    /\ blk' = blk + 1
    /\ UNCHANGED <<doc, pc, title, description, block_items, rel, result, comments, response, request>>

\* after the loop: close any unclosed list
CloseList ==
    /\ pc = "body"
    /\ blk > Len(block_items)
    /\ content' = CloseUnclosed(list_open, content)
    /\ rel' = 1
    /\ pc' = "images"
    /\ UNCHANGED <<doc, title, description, block_items, blk, list_open, result, comments, response, request>>

\* one iteration of `for rel in doc.part.rels.values()`
ImageStep ==
    /\ pc = "images"
    /\ rel <= Len(doc.rels)
    /\ LET r == doc.rels[rel]
       IN  IF ~IsImageRel(r)
           THEN /\ rel' = rel + 1
                /\ UNCHANGED <<pc, content>>
           ELSE IF ImageOpenRaises(r)
           THEN /\ pc' = "raised"
                /\ UNCHANGED <<rel, content>>
           ELSE /\ content' = Append(content, ImgTag(r))
                /\ rel' = rel + 1
                /\ UNCHANGED pc
    /\ UNCHANGED <<doc, title, description, block_items, blk, list_open, result, comments, response, request>>

\* return title, description, "".join(content), []
Return ==
    /\ pc = "images"
    /\ rel > Len(doc.rels)
    /\ result' = [returned |-> TRUE, title |-> title, description |-> description,
                  content |-> content, images |-> ReturnedImages]
    /\ pc' = "done"
    /\ UNCHANGED <<doc, title, description, block_items, blk, list_open, content, rel, comments, response, request>>

ExtractInit(blocklists, reltables) ==
    /\ doc \in {[blocks |-> b, rels |-> r] : b \in blocklists, r \in reltables}
    /\ pc = "start"
    /\ title = None
    /\ description = None
    /\ block_items = <<>>
    /\ blk = 1
    /\ list_open = None
    /\ content = <<>>
    /\ rel = 1
    /\ result = NoResult
    /\ comments = <<>>
    /\ response = NoResponse
    /\ request = NoRequest

ExtractNext == Begin \/ BodyStep \/ CloseList \/ ImageStep \/ Return

\* Every block list of the bounds, beside a few relationship tables
Init == ExtractInit(BlockLists, FewRelTables)
Next == ExtractNext
Spec == Init /\ [][Next]_vars

\* Every relationship table of the bounds, beside a few block lists
InitImages == ExtractInit(FewBlockLists, SeqsUpTo(RelPalette, MaxRels))
SpecImages == InitImages /\ [][ExtractNext]_vars

\* Every plain paragraph of the bounds, as the only body block
InitRuns == ExtractInit(RunBlockLists, FewRelTables)
SpecRuns == InitRuns /\ [][ExtractNext]_vars

----------------------------------------------------------------------------
(* extract_docx_content as one call, for the handlers that call it *)

RECURSIVE BodyPass(_, _)
\* the whole of `for block in block_items`
BodyPass(st, items) ==
    IF items = <<>> THEN st ELSE BodyPass(ProcessBlock(st, Head(items)), Tail(items))

RECURSIVE ImagePass(_, _)
\* the whole of `for rel in doc.part.rels.values()`: the content, or raised
ImagePass(c, rels) ==
    IF rels = <<>> THEN [raised |-> FALSE, content |-> c]
    ELSE IF ~IsImageRel(Head(rels)) THEN ImagePass(c, Tail(rels))
    ELSE IF ImageOpenRaises(Head(rels)) THEN [raised |-> TRUE]
    ELSE ImagePass(Append(c, ImgTag(Head(rels))), Tail(rels))

extract_docx_content(d) ==
    LET st == BodyPass([list_open |-> None, content |-> <<>>], BlockItemsOf(d))
        imgs == ImagePass(CloseUnclosed(st.list_open, st.content), d.rels)
    IN  IF imgs.raised THEN [raised |-> TRUE]
        ELSE [raised |-> FALSE, title |-> TitleOf(d), description |-> DescriptionOf(d),
              content |-> imgs.content, images |-> ReturnedImages]

----------------------------------------------------------------------------
(* The comment store and the review handler *)

n_a == <<"a", ".", "d", "o", "c", "x">>
n_b == <<"b", ".", "d", "o", "c", "x">>
n_d == <<"d", ".", "d", "o", "c", "x">>
n_t == <<"a", ".", "t", "x", "t">>

\* The names requested: reviews on disk, one not on disk, one that is no .docx
Names == {n_a, n_b, n_d, n_t}

\* The files of REVIEWS_DIR (a.txt is there too, and b.docx embeds a bad image)
ReviewsDir ==
    (n_a :> [blocks |-> <<PTitle, PTitle, PBullet>>, rels |-> <<RPng>>])
    @@ (n_b :> [blocks |-> <<PTitle, PPlain>>, rels |-> <<RBad>>])
    @@ (n_t :> [blocks |-> <<>>, rels |-> <<>>])

\* request.form.get("comment"): missing, empty, or a text
FormComments == {None, <<>>, <<"h", "i">>, <<"y", "o">>}

\* datetime.now(): seconds since midnight of the day, 00:09:59 and 00:10:00; the
\* wall clock is not monotonic, so either may come after the other
Times == {599, 600}

Digits == <<"0", "1", "2", "3", "4", "5", "6", "7", "8", "9">>

\* %02d
TwoDigits(n) == <<Digits[(n \div 10) + 1], Digits[(n % 10) + 1]>>

\* datetime.strftime("%Y-%m-%d %H:%M:%S") of a time of 2025-01-01
strftime(t) ==
    <<"2", "0", "2", "5", "-", "0", "1", "-", "0", "1", " ">>
    \o TwoDigits(t \div 3600) \o <<":">> \o TwoDigits((t \div 60) % 60) \o <<":">> \o TwoDigits(t % 60)

\* The byte of a character of a timestamp (ASCII)
Byte(ch) ==
    CASE ch = " " -> 32
      [] ch = "-" -> 45
      [] ch = ":" -> 58
      [] OTHER -> 47 + (CHOOSE k \in 1..10 : Digits[k] = ch)

RECURSIVE TextLess(_, _)
\* SQLite's BINARY collation on TEXT: memcmp, then the shorter first
TextLess(x, y) ==
    IF y = <<>> THEN FALSE
    ELSE IF x = <<>> THEN TRUE
    ELSE IF Byte(Head(x)) # Byte(Head(y)) THEN Byte(Head(x)) < Byte(Head(y))
    ELSE TextLess(Tail(x), Tail(y))

\* Mutant: ORDER BY timestamp, ascending
OrderedDesc_Asc(rows) == \A k \in 1..(Len(rows) - 1) : ~TextLess(rows[k + 1].timestamp, rows[k].timestamp)

\* ORDER BY timestamp DESC
OrderedDesc(rows) == \A k \in 1..(Len(rows) - 1) : ~TextLess(rows[k].timestamp, rows[k + 1].timestamp)

\* Mutant: no WHERE clause
Matching_All(rows, name) == rows

\* WHERE review_name = ?
Matching(rows, name) == SelectSeq(rows, LAMBDA r : r.review_name = name)

\* The orders in which SELECT comment, timestamp ... ORDER BY timestamp DESC may
\* answer: rows of equal timestamp come in any order
SelectComments(rows, name) ==
    LET m == Matching(rows, name)
        perms == {f \in [1..Len(m) -> 1..Len(m)] : \A i, j \in 1..Len(m) : i # j => f[i] # f[j]}
    IN  {[k \in 1..Len(m) |-> <<m[f[k]].comment, m[f[k]].timestamp>>] :
            f \in {g \in perms : OrderedDesc([k \in 1..Len(m) |-> m[g[k]]])}}

\* INSERT INTO comments (review_name, comment, timestamp) VALUES (?, ?, ?)
InsertComment(rows, name, comment, ts) ==
    Append(rows, [id |-> Len(rows) + 1, review_name |-> name, comment |-> comment, timestamp |-> ts])

\* Mutant: only a missing form field is refused, an empty one is stored
HasComment_NotNone(comment) == comment # None

\* if comment:
HasComment(comment) == comment # None /\ comment # <<>>

\* review(name), a GET or a POST with form field comment
Review(name, method, comment) ==
    /\ IF ~endswith(name, s_docx)
       THEN /\ response' = [status |-> 400, name |-> name]
            /\ UNCHANGED comments
       ELSE IF name \notin DOMAIN ReviewsDir
       THEN /\ response' = [status |-> 404, name |-> name]
            /\ UNCHANGED comments
       ELSE IF method = "POST"
       THEN /\ IF HasComment(comment)
               THEN /\ Len(comments) < MaxComments
                    /\ \E now \in Times :
                         comments' = InsertComment(comments, name, comment, strftime(now))
               ELSE UNCHANGED comments
            /\ response' = [status |-> 302, name |-> name]
       ELSE LET page == extract_docx_content(ReviewsDir[name])
            IN  IF page.raised
                THEN /\ response' = [status |-> 500, name |-> name]
                     /\ UNCHANGED comments
                ELSE /\ \E cs \in SelectComments(comments, name) :
                          response' = [page EXCEPT !.raised = FALSE] @@
                                      [status |-> 200, name |-> name, comments |-> cs]
                     /\ UNCHANGED comments
    /\ UNCHANGED extractVars

\* any request; the table is explored up to MaxComments rows
Request ==
    \E name \in Names, method \in {"GET", "POST"}, comment \in FormComments :
        /\ method = "GET" => comment = None
        /\ request' = [name |-> name, method |-> method, comment |-> comment]
        /\ Review(name, method, comment)

\* init_db() on an empty database; no extraction is running
InitStore == ExtractInit({<<>>}, {<<>>})
SpecStore == InitStore /\ [][Request]_vars

----------------------------------------------------------------------------
(* Vocabulary of the properties *)

Bad == <<"bad">>

RECURSIVE ScanFrom(_, _)
\* The list state after reading the pieces c from list state open: None, ul,
\* ol, or Bad once a list is opened inside a list or a close has no match
ScanFrom(open, c) ==
    IF c = <<>> \/ open = Bad THEN open
    ELSE LET pce == Head(c)
         IN  IF pce.el = "open"
             THEN ScanFrom(IF open = None THEN pce.tag ELSE Bad, Tail(c))
             ELSE IF pce.el = "close"
             THEN ScanFrom(IF open = pce.tag THEN None ELSE Bad, Tail(c))
             ELSE ScanFrom(open, Tail(c))

ListScan(c) == ScanFrom(None, c)

\* The loop is about to process block_items[blk]
AtBlock == pc = "body" /\ blk <= Len(block_items)

\* The loop has just processed block_items[blk - 1]
PastBlock == pc = "body" /\ blk > 1

NonEmptyPara(b) == b.type = "Paragraph" /\ strip(ParaText(b)) # <<>>

HeadingLike(b) ==
    /\ NonEmptyPara(b)
    /\ \/ contains(lower(b.style), s_heading)
       \/ startswith(lower(strip(ParaText(b))), s_chapter)

ListLike(b) ==
    /\ NonEmptyPara(b)
    /\ ~HeadingLike(b)
    /\ \/ startswith(lower(b.style), s_list)
       \/ contains(lower(b.style), s_bullet)
       \/ contains(lower(b.style), s_number)

PlainLike(b) == NonEmptyPara(b) /\ ~HeadingLike(b) /\ ~ListLike(b)

StyleTag(b) == IF contains(lower(b.style), s_bullet) THEN ul ELSE ol

\* The pieces a step appended
Appended == SubSeq(content', Len(content) + 1, Len(content'))

Extends == Len(content') >= Len(content) /\ SubSeq(content', 1, Len(content)) = content

LastPiece == content[Len(content)]

----------------------------------------------------------------------------
(* C1 *)

\* C1: the list tags of the body are balanced and never nested: while the pass
\* runs, the tags emitted so far leave exactly the list named by list_open open
\* (none opened inside another, none closed twice); once the pass is over no list
\* is open, and none is open in the returned body.
C1_BalancedLists ==
    /\ ListScan(content) = (IF pc = "body" THEN list_open ELSE None)
    /\ result.returned => ListScan(result.content) = None

\* A document whose last block is a bullet item has been extracted
C1_Witness ==
    /\ pc = "done"
    /\ block_items # <<>>
    /\ block_items[Len(block_items)] = PBullet
    /\ \E k \in 1..Len(result.content) : result.content[k] = CloseTag(ul)

----------------------------------------------------------------------------
(* C2 *)

\* C2: every list item is appended inside an open list of the tag of its style
\* (ul iff the style contains "bullet", else ol); when the item before it was an
\* item of the other tag, the step appends exactly the close of the open list,
\* the open of the new one, and the item.
C2_ListSwitch ==
    [][(AtBlock /\ ListLike(block_items[blk])) =>
        LET b == block_items[blk]
            tag == StyleTag(b)
        IN  /\ Extends
            /\ content'[Len(content')] = Li(strip(ParaText(b)))
            /\ ListScan(content') = tag
            /\ list_open' = tag
            /\ (blk > 1 /\ ListLike(block_items[blk - 1]) /\ StyleTag(block_items[blk - 1]) # tag) =>
                 LET old == StyleTag(block_items[blk - 1])
                 IN  /\ LastPiece.el = "li"
                     /\ ListScan(content) = old
                     /\ Appended = <<CloseTag(old), OpenTag(tag), Li(strip(ParaText(b)))>>]_vars

\* A bullet item directly followed by a numbered item: a closed ul, then a closed ol
C2_Witness ==
    /\ pc = "done"
    /\ \E k \in 1..(Len(result.content) - 5) :
         SubSeq(result.content, k, k + 5) =
            <<OpenTag(ul), Li(<<"a">>), CloseTag(ul), OpenTag(ol), Li(<<"b">>), CloseTag(ol)>>

----------------------------------------------------------------------------
(* C3 *)

BoldItalicRuns(b) == {k \in 1..Len(b.runs) : b.runs[k].bold /\ b.runs[k].italic /\ b.runs[k].text # <<>>}

\* C3 as stated: a bold and italic run of a plain paragraph is rendered
\* <b><i>text</i></b>, bold outermost.
C3_BoldOutermost ==
    (PastBlock /\ PlainLike(block_items[blk - 1])) =>
        \A k \in BoldItalicRuns(block_items[blk - 1]) :
            /\ LastPiece.el = "p"
            /\ contains(LastPiece.text,
                        b_open \o i_open \o block_items[blk - 1].runs[k].text \o i_close \o b_close)

\* C3, amended: a bold and italic run of a plain paragraph is rendered
\* <i><b>text</b></i>, italic outermost and bold innermost.
C3_ItalicOutermost ==
    (PastBlock /\ PlainLike(block_items[blk - 1])) =>
        \A k \in BoldItalicRuns(block_items[blk - 1]) :
            /\ LastPiece.el = "p"
            /\ contains(LastPiece.text,
                        i_open \o b_open \o block_items[blk - 1].runs[k].text \o b_close \o i_close)

\* A plain paragraph with a bold and italic run has been rendered
C3_Witness ==
    /\ PastBlock
    /\ PlainLike(block_items[blk - 1])
    /\ BoldItalicRuns(block_items[blk - 1]) # {}
    /\ LastPiece.el = "p"

----------------------------------------------------------------------------
(* C4 *)

\* C4: the title is the first paragraph's trimmed text, or "Untitled Review"
\* when there is no first paragraph or its trimmed text is empty; the
\* description is the second paragraph's trimmed text, or "No description
\* available." when there is no second paragraph or its trimmed text is empty.
C4_TitleDefaults ==
    result.returned =>
        LET ps == Paragraphs(doc)
            first == IF Len(ps) >= 1 THEN strip(ParaText(ps[1])) ELSE <<>>
            second == IF Len(ps) >= 2 THEN strip(ParaText(ps[2])) ELSE <<>>
        IN  /\ result.title = (IF first = <<>> THEN UntitledReview ELSE first)
            /\ result.description = (IF second = <<>> THEN NoDescription ELSE second)

----------------------------------------------------------------------------
(* C5 *)

RECURSIVE DropParagraphs(_, _)
\* blocks without its first n paragraphs
DropParagraphs(blocks, n) ==
    IF blocks = <<>> \/ n = 0 THEN blocks
    ELSE IF Head(blocks).type = "Paragraph" THEN DropParagraphs(Tail(blocks), n - 1)
    ELSE <<Head(blocks)>> \o DropParagraphs(Tail(blocks), n)

\* C5: the body pass runs over exactly the blocks other than the title and
\* description paragraphs (the first two paragraphs), wherever tables stand.
C5_BodyBlocks == pc # "start" => block_items = DropParagraphs(doc.blocks, 2)

----------------------------------------------------------------------------
(* C6 *)

\* C6: a non-empty paragraph of a heading style, or whose text starts with
\* "chapter", adds exactly one h2 element with its trimmed text to the body,
\* and no p and no li element, also when its style is a list style.
C6_HeadingOnce ==
    [][(AtBlock /\ HeadingLike(block_items[blk])) =>
        /\ Extends
        /\ Cardinality({k \in 1..Len(Appended) : Appended[k].el = "h2"}) = 1
        /\ \A k \in 1..Len(Appended) :
             /\ Appended[k].el \notin {"p", "li", "open"}
             /\ Appended[k].el = "h2" => Appended[k] = H2(strip(ParaText(block_items[blk])))]_vars

\* A paragraph of a list style whose text starts with "chapter" became a heading
C6_Witness ==
    /\ PastBlock
    /\ HeadingLike(block_items[blk - 1])
    /\ startswith(lower(block_items[blk - 1].style), s_list)
    /\ LastPiece.el = "h2"

----------------------------------------------------------------------------
(* C7 *)

\* C7: an embedded image that cannot be decoded is skipped: extraction never
\* aborts on it.
C7_BadImageSkipped == pc # "raised"

----------------------------------------------------------------------------
(* C8 *)

\* The embedded image relationships of the document, in the order yielded
ImageRels(d) == SelectSeq(d.rels, LAMBDA r : r.reltype = rt_image)

DataUri(r) == Img(lower(r.target_part.blob.format), r.target_part.blob.pixels)

\* C8 as stated: the images component holds one data URI per embedded image
\* relationship, in order.
C8_ImagesReturned ==
    result.returned =>
        result.images = [k \in 1..Len(ImageRels(doc)) |-> DataUri(ImageRels(doc)[k])]

\* C8, amended: whenever extraction returns, the images component is empty and
\* the body ends with one img element per embedded image relationship, in the
\* order yielded, each a data:image/<fmt>;base64 URI with fmt the detected
\* format in lower case; no other piece of the body is an img element.
C8_ImagesInBody ==
    result.returned =>
        LET irs == ImageRels(doc)
            c == result.content
            n == Len(irs)
        IN  /\ result.images = <<>>
            /\ Len(c) >= n
            /\ \A k \in 1..n : c[Len(c) - n + k] = DataUri(irs[k])
            /\ \A k \in 1..(Len(c) - n) : c[k].el # "img"

\* A document with two embedded images has been extracted
C8_Witness == result.returned /\ Len(ImageRels(doc)) >= 2 /\ doc.blocks # <<>>

----------------------------------------------------------------------------
(* C9 *)

\* The time of day, in seconds, that a timestamp YYYY-MM-DD HH:MM:SS writes
DigitOf(ch) == (CHOOSE k \in 1..10 : Digits[k] = ch) - 1
SecondsOf(ts) ==
    (DigitOf(ts[12]) * 10 + DigitOf(ts[13])) * 3600
    + (DigitOf(ts[15]) * 10 + DigitOf(ts[16])) * 60
    + DigitOf(ts[18]) * 10 + DigitOf(ts[19])

\* How many times pair occurs in the sequence pairs
Count(pairs, pair) == Cardinality({k \in 1..Len(pairs) : pairs[k] = pair})

\* The (text, timestamp) pairs of the rows of review name
PairsOf(rows, name) ==
    LET idx == {k \in 1..Len(rows) : rows[k].review_name = name}
    IN  {<<rows[k].comment, rows[k].timestamp>> : k \in idx}

\* C9: the comment table only grows, by one row at its end, and no stored row
\* changes; a page of review R shows exactly the (text, timestamp) pairs stored
\* for R, each as often as it was stored, none of another review, latest first.
C9_AppendOnlyReadDesc ==
    /\ [](response.status = 200 =>
            LET shown == response.comments
                mine == {k \in 1..Len(comments) : comments[k].review_name = response.name}
            IN  /\ Len(shown) = Cardinality(mine)
                /\ \A pair \in PairsOf(comments, response.name) :
                     Count(shown, pair) =
                        Cardinality({k \in mine : <<comments[k].comment, comments[k].timestamp>> = pair})
                /\ \A k \in 1..Len(shown) : shown[k] \in PairsOf(comments, response.name)
                /\ \A k \in 1..(Len(shown) - 1) : SecondsOf(shown[k][2]) >= SecondsOf(shown[k + 1][2]))
    /\ [][/\ Len(comments') \in {Len(comments), Len(comments) + 1}
          /\ SubSeq(comments', 1, Len(comments)) = comments]_vars

\* A page showed comments of one review, of different times, while
\* another review had a comment too
C9_Witness ==
    /\ response.status = 200
    /\ Len(response.comments) >= 2
    /\ SecondsOf(response.comments[1][2]) > SecondsOf(response.comments[Len(response.comments)][2])
    /\ \E k \in 1..Len(comments) : comments[k].review_name # response.name

----------------------------------------------------------------------------
(* C10 *)

\* C10: no h2, p or table element is appended while a list is open: a heading, a
\* non-empty plain paragraph and a table first close the open list; an empty
\* paragraph changes neither the open list nor the body.
C10_ClosesBeforeBlock ==
    [][AtBlock =>
        LET b == block_items[blk]
        IN  /\ \A k \in 1..Len(content') :
                 content'[k].el \in {"h2", "p", "table"} => ListScan(SubSeq(content', 1, k - 1)) = None
            /\ (HeadingLike(b) \/ PlainLike(b) \/ b.type = "Table") =>
                 /\ Extends
                 /\ list_open' = None
                 /\ list_open # None =>
                      /\ Appended[1] = CloseTag(list_open)
                      /\ Len(Appended) = 2
                 /\ Appended[Len(Appended)].el \in {"h2", "p", "table"}
            /\ (b.type = "Paragraph" /\ ~NonEmptyPara(b)) =>
                 /\ list_open' = list_open
                 /\ content' = content]_vars

\* Two bullet items separated by an empty paragraph stayed in one list
C10_Witness ==
    /\ pc = "done"
    /\ \E k \in 1..(Len(block_items) - 2) :
         /\ block_items[k] = PBullet
         /\ block_items[k + 1] = PEmpty
         /\ block_items[k + 2] = PBullet
    /\ \E k \in 1..(Len(result.content) - 3) :
         SubSeq(result.content, k, k + 3) = <<OpenTag(ul), Li(<<"a">>), Li(<<"a">>), CloseTag(ul)>>

----------------------------------------------------------------------------
(* C11 *)

\* C11: a request to review() changes the comments table exactly when it is a
\* POST with a non-empty comment for a name that ends with ".docx" and is a file
\* of the reviews directory, and then by appending one row of that name and
\* that text; a POST with an empty or missing comment, a name that does not end
\* with ".docx" (answered 400), a missing file (answered 404) and every GET
\* leave the table as it was.
C11_OnlyValidPostInserts ==
    [][LET rq == request'
           inserts == /\ rq.method = "POST"
                      /\ rq.comment # None
                      /\ rq.comment # <<>>
                      /\ endswith(rq.name, s_docx)
                      /\ rq.name \in DOMAIN ReviewsDir
       IN  /\ inserts =>
                /\ Len(comments') = Len(comments) + 1
                /\ SubSeq(comments', 1, Len(comments)) = comments
                /\ comments'[Len(comments')].review_name = rq.name
                /\ comments'[Len(comments')].comment = rq.comment
           /\ ~inserts => comments' = comments
           /\ ~endswith(rq.name, s_docx) => response'.status = 400
           /\ (endswith(rq.name, s_docx) /\ rq.name \notin DOMAIN ReviewsDir) => response'.status = 404]_vars

\* A POST stored its comment for a review whose page cannot be rendered, on a
\* table that already held a row of another review
C11_Witness ==
    /\ Len(comments) >= 1
    /\ request.method = "POST"
    /\ request.comment = <<"h", "i">>
    /\ request.name = n_b
    /\ response.status = 302
    /\ comments[Len(comments)].review_name = n_b
    /\ comments[Len(comments)].comment = <<"h", "i">>
    /\ \E k \in 1..Len(comments) : comments[k].review_name = n_a

====
